---- MODULE Spec2Model ----
(***************************************************************************)
(* The request pipeline of app.py: the /summarize handler, the coordinator *)
(* process_youtube_video and the helpers it calls.                         *)
(*                                                                         *)
(* Values.  An Optional[x] is None (the empty tuple) or Some(x) (a         *)
(* one-element tuple).  A Python str is a sequence of tokens: a token is   *)
(* either one whitespace character, written " ", or a maximal run of       *)
(* non-whitespace characters (a word).  Host names, paths and video ids    *)
(* are sequences of single characters.                                     *)
(***************************************************************************)
EXTENDS Integers, Sequences, FiniteSets, TLC

VARIABLES
    req,    \* each request's frame: its position and the locals of summarize,
            \* process_youtube_video and summarize_text
    files,  \* the working directory: what audio.mp3 and audio.wav hold
    call,   \* a helper called on its own: its name and arguments
    outcome \* what that call returned

vars == <<req, files, call, outcome>>

-----------------------------------------------------------------------------
(* Bounds of the model *)

NumProcs == 2
MaxChunks == 2
MaxTextLen == 6
MaxWords == 3

Procs == 1..NumProcs

-----------------------------------------------------------------------------
(* Python values *)

None == <<>>
Some(v) == <<v>>

\* `if x:` / `if not x:` on an Optional[str]: None and "" are falsy
Truthy(o) == o # None /\ o[1] # <<>>

Min(a, b) == IF a < b THEN a ELSE b

\* sep.join(strs) with sep = " "
RECURSIVE Join(_)
Join(strs) ==
    IF Len(strs) = 0 THEN <<>>
    ELSE IF Len(strs) = 1 THEN strs[1]
    ELSE LET m == Len(strs) \div 2
         IN  Join(SubSeq(strs, 1, m)) \o <<" ">> \o Join(SubSeq(strs, m + 1, Len(strs)))

\* " ".join(words) for a list of words (one token each)
JoinWords(words) ==
    [i \in 1..(IF words = <<>> THEN 0 ELSE 2 * Len(words) - 1) |->
        IF i % 2 = 1 THEN words[(i + 1) \div 2] ELSE " "]

\* the whitespace tokens of a text; every other token is a word
Whitespace == {" ", "\n"}

\* str.split(): the words, whitespace dropped
split(text) == SelectSeq(text, LAMBDA t : t \notin Whitespace)

\* `pat in s` on character sequences
Contains(pat, s) ==
    \E i \in 0..(Len(s) - Len(pat)) : SubSeq(s, i + 1, i + Len(pat)) = pat

\* s.lstrip("/")
RECURSIVE lstrip(_)
lstrip(s) == IF s # <<>> /\ Head(s) = "/" THEN lstrip(Tail(s)) ELSE s

\* str(e) of an exception, one token naming it
Str(e) == <<e>>

\* the tokens that hold "Error" as a substring
ErrorTokens == {"Error", "Error:"}

\* `"Error" in s`
HasError(s) == \E i \in 1..Len(s) : s[i] \in ErrorTokens

-----------------------------------------------------------------------------
(* URLs.  A URL string is given by what urlparse makes of it: valid is     *)
(* FALSE when urlparse raises; ws tells whether the string has leading or  *)
(* trailing whitespace, which .strip() removes.                            *)

YOUTUBE_COM == <<"y","o","u","t","u","b","e",".","c","o","m">>
YOUTU_BE == <<"y","o","u","t","u",".","b","e">>

Url(ws, valid, netloc, path, query) ==
    [ws |-> ws, valid |-> valid, netloc |-> netloc, path |-> path, query |-> query]

\* ""
EmptyStr == Url(FALSE, TRUE, <<>>, <<>>, <<>>)
\* "   "
BlankUrl == Url(TRUE, TRUE, <<>>, <<>>, <<>>)
\* "https://www.youtube.com/watch?v=abc"
WatchUrl == Url(FALSE, TRUE, <<"w","w","w",".">> \o YOUTUBE_COM,
                <<"/","w","a","t","c","h">>, << <<"v", <<"a","b","c">> >> >>)
\* " https://youtu.be/xyz "
ShortUrl == Url(TRUE, TRUE, YOUTU_BE, <<"/","x","y","z">>, <<>>)
\* "https://youtube.com/watch?t=1&v="
NoIdUrl == Url(FALSE, TRUE, YOUTUBE_COM, <<"/","w","a","t","c","h">>,
               << <<"t", <<"1">> >>, <<"v", <<>> >> >>)
\* "https://youtu.be/"
RootUrl == Url(FALSE, TRUE, YOUTU_BE, <<"/">>, <<>>)
\* "https://example.com/watch?v=abc"
OtherUrl == Url(FALSE, TRUE, <<"e","x",".","c","o","m">>,
                <<"/","w","a","t","c","h">>, << <<"v", <<"a","b","c">> >> >>)
\* "not a url"
TextUrl == Url(FALSE, TRUE, <<>>, <<"n","o","t"," ","a"," ","u","r","l">>, <<>>)
\* "http://[youtube.com/watch?v=abc" (urlparse raises ValueError)
BadUrl == Url(FALSE, FALSE, YOUTUBE_COM, <<"/","w","a","t","c","h">>,
              << <<"v", <<"a","b","c">> >> >>)

\* hosts, paths and queries of the URLs handed to extract_video_id alone:
\* "youtube.com", "www.youtube.com", "youtu.be", "ex.com", "",
\* "notyoutube.com", "youtu.be.ex.com"
Hosts ==
    { YOUTUBE_COM, <<"w","w","w",".">> \o YOUTUBE_COM, YOUTU_BE,
      <<"e","x",".","c","o","m">>, <<>>,
      <<"n","o","t">> \o YOUTUBE_COM,
      YOUTU_BE \o <<".","e","x",".","c","o","m">> }
\* "", "/", "/watch", "/xyz", "//xyz"
Paths ==
    { <<>>, <<"/">>, <<"/","w","a","t","c","h">>, <<"/","x","y","z">>,
      <<"/","/","x","y","z">> }
\* "", "v=abc", "v=", "t=1&v=abc", "v=abc&v=d"
Queries ==
    { <<>>,
      << <<"v", <<"a","b","c">> >> >>,
      << <<"v", <<>> >> >>,
      << <<"t", <<"1">> >>, <<"v", <<"a","b","c">> >> >>,
      << <<"v", <<"a","b","c">> >>, <<"v", <<"d">> >> >> }

UrlInputs ==
    { Url(FALSE, valid, h, pth, q) :
        valid \in BOOLEAN, h \in Hosts, pth \in Paths, q \in Queries }

Urls == {BlankUrl, WatchUrl, ShortUrl, NoIdUrl, RootUrl, OtherUrl, TextUrl, BadUrl}

\* s.strip()
strip(u) == [u EXCEPT !.ws = FALSE]

\* parse_qs(query).get(key, [None])[0]: blank values are dropped by parse_qs
parse_qs_get(query, key) ==
    LET vals == SelectSeq(query, LAMBDA kv : kv[1] = key /\ kv[2] # <<>>)
    IN  IF vals = <<>> THEN None ELSE Some(vals[1][2])

extract_video_id(url) ==
    IF ~url.valid THEN None
    ELSE IF Contains(YOUTUBE_COM, url.netloc) THEN parse_qs_get(url.query, "v")
    ELSE IF Contains(YOUTU_BE, url.netloc) THEN Some(lstrip(url.path))
    ELSE None

-----------------------------------------------------------------------------
(* Text helpers *)

\* YouTubeTranscriptApi.get_transcript: it raises, or returns the entries'
\* text in order
ApiRaises == [raised |-> TRUE, entries |-> <<>>]
ApiReturns(entries) == [raised |-> FALSE, entries |-> entries]

\* get_youtube_transcript with "".join in place of " ".join
RECURSIVE Concat(_)
Concat(strs) ==
    IF Len(strs) = 0 THEN <<>>
    ELSE IF Len(strs) = 1 THEN strs[1]
    ELSE LET m == Len(strs) \div 2
         IN  Concat(SubSeq(strs, 1, m)) \o Concat(SubSeq(strs, m + 1, Len(strs)))

get_youtube_transcript_nosep(api) ==
    IF api.raised THEN None
    ELSE IF api.entries # <<>> THEN Some(Concat(api.entries))
    ELSE None

get_youtube_transcript(api) ==
    IF api.raised THEN None
    ELSE IF api.entries # <<>> THEN Some(Join(api.entries))
    ELSE None

DefaultMaxWords == 900

\* chunk_text without the last, shorter window
chunk_text_floor(text, max_words) ==
    LET words == split(text)
        n == Len(words) \div max_words
    IN  [k \in 1..n |->
            JoinWords(SubSeq(words, (k - 1) * max_words + 1, k * max_words))]

chunk_text(text, max_words) ==
    LET words == split(text)
        n == (Len(words) + max_words - 1) \div max_words
    IN  [k \in 1..n |->
            JoinWords(SubSeq(words, (k - 1) * max_words + 1,
                             Min(k * max_words, Len(words))))]

\* summarize_text line 89
aggregate(sums) == IF sums # <<>> THEN Some(Join(sums)) ELSE None

-----------------------------------------------------------------------------
(* Inputs: request bodies and collaborator outcomes *)

\* the texts of at most n tokens: two words are always separated by
\* whitespace
Texts(n) ==
    LET Tokens == Whitespace \cup {"a", "b"}
    IN  { t \in UNION { [1..k -> Tokens] : k \in 0..n } :
            \A i \in 1..(Len(t) - 1) :
                t[i] \in Whitespace \/ t[i + 1] \in Whitespace }

\* a helper called on its own, with its arguments
NoCall == [fn |-> "none"]
PureInputs ==
    { [fn |-> "chunk_text", text |-> t, max_words |-> m] :
        t \in Texts(MaxTextLen), m \in 1..MaxWords }
    \cup { [fn |-> "extract_video_id", youtube_url |-> u] : u \in UrlInputs }
NotReturned == [returned |-> FALSE, value |-> None]
ReturnedValue(v) == [returned |-> TRUE, value |-> v]

\* a JSON value handed to int(): an integer, or something int() rejects
JInt(n) == [isint |-> TRUE, val |-> n]
JBad == [isint |-> FALSE, val |-> 0]

\* summarize: data.get("max_length", 150), data.get("min_length", 50)
RequestMaxLength == 150
RequestMinLength == 50

\* summarize_text(text, max_length=150, min_length=50)
DefaultMaxLength == 150
DefaultMinLength == 50

\* request.get_json(force=True): parsed is FALSE when it raises
Body(url, maxl, minl) ==
    [parsed |-> TRUE, youtube_url |-> url, max_length |-> maxl, min_length |-> minl]
BadBody == [parsed |-> FALSE, youtube_url |-> None, max_length |-> None, min_length |-> None]

Bodies ==
    {BadBody} \cup
    { Body(u, ml, mn) : u \in {None} \cup {Some(x) : x \in Urls},
                        ml \in {None, Some(JInt(100)), Some(JBad)},
                        mn \in {None, Some(JInt(30))} }

\* a transcript of k chunks: an entry of one word, then k - 1 entries of
\* 900 words
LongEntries(k) ==
    [i \in 1..k |-> IF i = 1 THEN <<"start">>
                    ELSE JoinWords([j \in 1..DefaultMaxWords |-> "w"])]

ApiOutcomes ==
    { ApiRaises,
      ApiReturns(<<>>),
      ApiReturns(<< <<>> >>),
      ApiReturns(<< <<>>, <<>> >>),
      ApiReturns(<< <<"hello">>, <<"big", " ", "world">> >>) }
    \cup { ApiReturns(LongEntries(k)) : k \in 2..MaxChunks }

\* subprocess.run of yt-dlp: it writes the file, writes nothing, or raises
YtDlpOutcomes == {"ok", "fail", "raise"}

\* AudioSegment.from_file + export: done, or an exception
ConvertOutcomes == {"ok", "raise"}

\* whisper_model.transcribe(...)["text"]: None stands for an exception
WhisperOutcomes == {None, Some(<<>>), Some(<<" ", "spoken", " ", "words">>)}

\* summarizer(...)[0]['summary_text']: None stands for an exception
SummarizerOutcomes ==
    {None, Some(<<>>), Some(<<"short">>), Some(<<"An", " ", "Error", " ", "story">>)}

\* os.remove: done, or an exception
RemoveOutcomes == {"ok", "raise"}

-----------------------------------------------------------------------------
(* Messages *)

NoUrlProvided == <<"No", " ", "YouTube", " ", "URL", " ", "provided">>
ServerError(e) == <<"Server", " ", "error:", " ">> \o Str(e)
ErrInvalidUrl == <<"Error:", " ", "Invalid", " ", "YouTube", " ", "URL">>
ErrDownload == <<"Error:", " ", "Failed", " ", "to", " ", "download", " ", "audio">>
ErrConvert == <<"Error:", " ", "Failed", " ", "to", " ", "convert", " ", "audio">>
ErrTranscribe == <<"Error:", " ", "Failed", " ", "to", " ", "transcribe", " ", "audio">>
ErrSummarization == <<"Error:", " ", "Summarization", " ", "failed">>
\* f"Error: {str(e)}"
ErrException(e) == <<"Error:", " ">> \o Str(e)

\* jsonify(body), status
Response(status, key, text) == [status |-> status, key |-> key, text |-> text]

-----------------------------------------------------------------------------
(* State *)

MP3 == "audio.mp3"
WAV == "audio.wav"
TempFiles == <<MP3, WAV>>

Call(fn, arg, ret) == [fn |-> fn, arg |-> arg, ret |-> ret]

Idle ==
    [pc |-> "idle", data |-> BadBody, youtube_url |-> EmptyStr,
     max_length |-> RequestMaxLength, min_length |-> RequestMinLength,
     video_id |-> None, transcript |-> None, input_audio |-> None,
     output_audio |-> None, caller |-> 0, text |-> <<>>,
     st_max_length |-> DefaultMaxLength, st_min_length |-> DefaultMinLength,
     chunks |-> <<>>, chunk |-> 1, summaries |-> <<>>,
     summary |-> None, file |-> 1, result |-> None, response |-> None,
     calls |-> <<>>]

Init ==
    /\ req = [p \in Procs |-> Idle]
    /\ files = [f \in {MP3, WAV} |-> None]
    /\ call = NoCall
    /\ outcome = NotReturned

Set(p, frame) ==
    /\ req' = [req EXCEPT ![p] = frame]
    /\ UNCHANGED <<call, outcome>>

\* no other request is in flight
Alone(p) == \A q \in Procs \ {p} : req[q].pc = "idle"

-----------------------------------------------------------------------------
(* The file-touching helpers, as functions of the directory and of what    *)
(* the external tool does                                                  *)

\* download_audio(youtube_url): yt-dlp runs, then the path is returned if
\* the file exists
download_audio(fs, url, o) ==
    LET written == IF o = "ok" THEN [fs EXCEPT ![MP3] = Some(url)] ELSE fs
    IN  [files |-> written,
         ret |-> IF written[MP3] # None THEN Some(MP3) ELSE None]

\* convert_audio_to_wav that turns a missing input into an empty audio.wav
convert_audio_to_wav_missing_ok(fs, input, o) ==
    IF o = "raise"
    THEN [files |-> fs, ret |-> None]
    ELSE [files |-> [fs EXCEPT ![WAV] = fs[input]], ret |-> Some(WAV)]

\* convert_audio_to_wav(input_audio): reading a missing file raises
convert_audio_to_wav(fs, input, o) ==
    IF o = "raise" \/ fs[input] = None
    THEN [files |-> fs, ret |-> None]
    ELSE [files |-> [fs EXCEPT ![WAV] = fs[input]], ret |-> Some(WAV)]

\* transcribe_audio(audio_file): reading a missing file raises
transcribe_audio(fs, audio_file, o) ==
    IF o = None \/ fs[audio_file] = None THEN None ELSE o

\* a call summarize_text(text) made at `line`: the bounds take their defaults
CallSummarizeText(me, text, line) ==
    [me EXCEPT !.pc = "summarize", !.caller = line, !.text = text,
               !.st_max_length = DefaultMaxLength,
               !.st_min_length = DefaultMinLength]

\* process_youtube_video returns v (or its except clause does)
ReturnValue(me, v) == [me EXCEPT !.pc = "respond", !.result = v]

-----------------------------------------------------------------------------
(* Actions *)

\* summarize, lines 137-149: up to the call of process_youtube_video
Summarize(p, body) ==
    /\ req[p].pc = "idle"
    /\ LET me == [req[p] EXCEPT !.data = body]
           url == strip(IF body.youtube_url = None THEN EmptyStr
                        ELSE body.youtube_url[1])
           maxl == IF body.max_length = None THEN JInt(RequestMaxLength)
                   ELSE body.max_length[1]
           minl == IF body.min_length = None THEN JInt(RequestMinLength)
                   ELSE body.min_length[1]
           Fail(status, msg) ==
               Set(p, [me EXCEPT !.pc = "done",
                                 !.response = Some(Response(status, "error", msg))])
       IN  IF ~body.parsed THEN Fail(500, ServerError("BadRequest"))
           ELSE IF ~maxl.isint \/ ~minl.isint THEN Fail(500, ServerError("ValueError"))
           ELSE IF url = EmptyStr THEN Fail(400, NoUrlProvided)
           ELSE Set(p, [me EXCEPT !.pc = "extract", !.youtube_url = url,
                                  !.max_length = maxl.val, !.min_length = minl.val])
    /\ UNCHANGED files

\* lines 94-96 with `if video_id is None` in place of `if not video_id`
ExtractIdNoneOnly(p) ==
    /\ req[p].pc = "extract"
    /\ LET me == req[p]
           id == extract_video_id(me.youtube_url)
       IN  IF id = None THEN Set(p, ReturnValue([me EXCEPT !.video_id = id],
                                                Some(ErrInvalidUrl)))
           ELSE Set(p, [me EXCEPT !.video_id = id, !.pc = "transcript"])
    /\ UNCHANGED files

\* process_youtube_video, lines 94-96
ExtractId(p) ==
    /\ req[p].pc = "extract"
    /\ LET me == req[p]
           id == extract_video_id(me.youtube_url)
       IN  IF ~Truthy(id) THEN Set(p, ReturnValue([me EXCEPT !.video_id = id],
                                                 Some(ErrInvalidUrl)))
           ELSE Set(p, [me EXCEPT !.video_id = id, !.pc = "transcript"])
    /\ UNCHANGED files

\* process_youtube_video, lines 99-103
GetTranscript(p) ==
    /\ req[p].pc = "transcript"
    /\ \E api \in ApiOutcomes :
         LET me == req[p]
             t == get_youtube_transcript(api)
             called == [me EXCEPT !.transcript = t,
                           !.calls = Append(@, Call("get_transcript", me.video_id[1], api))]
         IN  IF Truthy(t) THEN Set(p, CallSummarizeText(called, t[1], 103))
             ELSE Set(p, [called EXCEPT !.pc = "download"])
    /\ UNCHANGED files

\* process_youtube_video, lines 107-109
DownloadAudio(p) ==
    /\ req[p].pc = "download"
    /\ \E o \in YtDlpOutcomes :
         LET me == req[p]
             called == [me EXCEPT !.calls = Append(@, Call("yt-dlp", me.youtube_url, o))]
             d == download_audio(files, me.youtube_url, o)
         IN  IF o = "raise"
             THEN /\ Set(p, ReturnValue(called, Some(ErrException("OSError"))))
                  /\ UNCHANGED files
             ELSE /\ files' = d.files
                  /\ IF d.ret = None
                     THEN Set(p, ReturnValue(called, Some(ErrDownload)))
                     ELSE Set(p, [called EXCEPT !.input_audio = d.ret, !.pc = "convert"])

\* process_youtube_video, lines 111-113
ConvertAudio(p) ==
    /\ req[p].pc = "convert"
    /\ \E o \in ConvertOutcomes :
         LET me == req[p]
             c == convert_audio_to_wav(files, me.input_audio[1], o)
             called == [me EXCEPT !.calls =
                           Append(@, Call("AudioSegment", files[me.input_audio[1]],
                                          IF c.ret = None THEN "raise" ELSE "ok"))]
         IN  /\ files' = c.files
             /\ IF c.ret = None
                THEN Set(p, ReturnValue(called, Some(ErrConvert)))
                ELSE Set(p, [called EXCEPT !.output_audio = c.ret, !.pc = "transcribe"])

\* process_youtube_video, lines 115-119
TranscribeAudio(p) ==
    /\ req[p].pc = "transcribe"
    /\ \E o \in WhisperOutcomes :
         LET me == req[p]
             t == transcribe_audio(files, me.output_audio[1], o)
             called == [me EXCEPT !.transcript = t,
                           !.calls = Append(@, Call("whisper", files[me.output_audio[1]], t))]
         IN  IF ~Truthy(t) THEN Set(p, ReturnValue(called, Some(ErrTranscribe)))
             ELSE Set(p, CallSummarizeText(called, t[1], 119))
    /\ UNCHANGED files

\* summarize_text, lines 78-79
SummarizeText(p) ==
    /\ req[p].pc = "summarize"
    /\ Set(p, [req[p] EXCEPT !.chunks = chunk_text(req[p].text, DefaultMaxWords),
                             !.chunk = 1, !.summaries = <<>>, !.pc = "chunk"])
    /\ UNCHANGED files

\* lines 81-87 with `break` in place of `continue`
SummarizeChunkBreak(p) ==
    /\ req[p].pc = "chunk"
    /\ req[p].chunk <= Len(req[p].chunks)
    /\ \E o \in SummarizerOutcomes :
         LET me == req[p]
             arg == [chunk |-> me.chunks[me.chunk],
                     max_length |-> me.st_max_length,
                     min_length |-> me.st_min_length]
         IN  Set(p, [me EXCEPT !.calls = Append(@, Call("summarizer", arg, o)),
                               !.summaries = IF o = None THEN @ ELSE Append(@, o[1]),
                               !.chunk = IF o = None THEN Len(me.chunks) + 1 ELSE @ + 1])
    /\ UNCHANGED files

\* lines 81-87 with the except clause dropping what was collected so far
SummarizeChunkDiscard(p) ==
    /\ req[p].pc = "chunk"
    /\ req[p].chunk <= Len(req[p].chunks)
    /\ \E o \in SummarizerOutcomes :
         LET me == req[p]
             arg == [chunk |-> me.chunks[me.chunk],
                     max_length |-> me.st_max_length,
                     min_length |-> me.st_min_length]
         IN  Set(p, [me EXCEPT !.calls = Append(@, Call("summarizer", arg, o)),
                               !.summaries = IF o = None THEN <<>> ELSE Append(@, o[1]),
                               !.chunk = @ + 1])
    /\ UNCHANGED files

\* summarize_text, lines 81-87: one turn of the loop
SummarizeChunk(p) ==
    /\ req[p].pc = "chunk"
    /\ req[p].chunk <= Len(req[p].chunks)
    /\ \E o \in SummarizerOutcomes :
         LET me == req[p]
             arg == [chunk |-> me.chunks[me.chunk],
                     max_length |-> me.st_max_length,
                     min_length |-> me.st_min_length]
         IN  Set(p, [me EXCEPT !.calls = Append(@, Call("summarizer", arg, o)),
                               !.summaries = IF o = None THEN @ ELSE Append(@, o[1]),
                               !.chunk = @ + 1])
    /\ UNCHANGED files

\* summarize_text, line 89, back to its caller (line 103 or line 119)
SummarizeReturn(p) ==
    /\ req[p].pc = "chunk"
    /\ req[p].chunk > Len(req[p].chunks)
    /\ LET me == req[p]
           agg == aggregate(me.summaries)
       IN  IF me.caller = 103 THEN Set(p, ReturnValue(me, agg))
           ELSE Set(p, [me EXCEPT !.summary = agg, !.file = 1, !.pc = "cleanup"])
    /\ UNCHANGED files

\* process_youtube_video, lines 122-123: the loop's test of one file
CleanupExists(p) ==
    /\ req[p].pc = "cleanup"
    /\ req[p].file <= Len(TempFiles)
    /\ LET me == req[p]
           f == TempFiles[me.file]
           exists == files[f] # None
           called == [me EXCEPT !.calls = Append(@, Call("os.path.exists", f, exists))]
       IN  IF exists THEN Set(p, [called EXCEPT !.pc = "remove"])
           ELSE Set(p, [called EXCEPT !.file = @ + 1])
    /\ UNCHANGED files

\* process_youtube_video, line 124: os.remove of a missing file raises
CleanupRemove(p) ==
    /\ req[p].pc = "remove"
    /\ \E o \in RemoveOutcomes :
         LET me == req[p]
             f == TempFiles[me.file]
             done == IF files[f] = None THEN "raise" ELSE o
             called == [me EXCEPT !.calls = Append(@, Call("os.remove", f, done))]
         IN  IF done = "raise"
             THEN /\ Set(p, ReturnValue(called, Some(ErrException("OSError"))))
                  /\ UNCHANGED files
             ELSE /\ Set(p, [called EXCEPT !.file = @ + 1, !.pc = "cleanup"])
                  /\ files' = [files EXCEPT ![f] = None]

\* process_youtube_video, line 126
Return(p) ==
    /\ req[p].pc = "cleanup"
    /\ req[p].file > Len(TempFiles)
    /\ LET me == req[p]
       IN  Set(p, ReturnValue(me, IF Truthy(me.summary) THEN me.summary
                                  ELSE Some(ErrSummarization)))
    /\ UNCHANGED files

\* lines 149-158 without the outer try/except: the TypeError of
\* `"Error" in None` leaves the handler and no response is built
RespondUncaught(p) ==
    /\ req[p].pc = "respond"
    /\ LET me == req[p]
           r == IF me.result = None THEN None
                ELSE IF HasError(me.result[1])
                THEN Some(Response(500, "error", me.result[1]))
                ELSE Some(Response(200, "summary", me.result[1]))
       IN  Set(p, [me EXCEPT !.pc = "done", !.response = r])
    /\ UNCHANGED files

\* lines 149-158 with `if summary and "Error" in summary`: None is sent as
\* the summary
RespondNoneAsSummary(p) ==
    /\ req[p].pc = "respond"
    /\ LET me == req[p]
           r == IF me.result = None
                THEN Response(200, "summary", <<>>)
                ELSE IF HasError(me.result[1])
                THEN Response(500, "error", me.result[1])
                ELSE Response(200, "summary", me.result[1])
       IN  Set(p, [me EXCEPT !.pc = "done", !.response = Some(r)])
    /\ UNCHANGED files

\* summarize, lines 149-158: `"Error" in None` raises TypeError
Respond(p) ==
    /\ req[p].pc = "respond"
    /\ LET me == req[p]
           r == IF me.result = None
                THEN Response(500, "error", ServerError("TypeError"))
                ELSE IF HasError(me.result[1])
                THEN Response(500, "error", me.result[1])
                ELSE Response(200, "summary", me.result[1])
       IN  Set(p, [me EXCEPT !.pc = "done", !.response = Some(r)])
    /\ UNCHANGED files

\* the response is sent and the request's frame is gone
Finish(p) ==
    /\ req[p].pc = "done"
    /\ Set(p, Idle)
    /\ UNCHANGED files

Step(p) ==
    \/ ExtractId(p)
    \/ GetTranscript(p)
    \/ DownloadAudio(p)
    \/ ConvertAudio(p)
    \/ TranscribeAudio(p)
    \/ SummarizeText(p)
    \/ SummarizeChunk(p)
    \/ SummarizeReturn(p)
    \/ CleanupExists(p)
    \/ CleanupRemove(p)
    \/ Return(p)
    \/ Respond(p)
    \/ Finish(p)

\* requests served one at a time
Next ==
    \E p \in Procs :
        \/ Alone(p) /\ \E body \in Bodies : Summarize(p, body)
        \/ Step(p)

Spec == Init /\ [][Next]_vars

-----------------------------------------------------------------------------
(* Requests served at the same time (threaded server): the steps of two   *)
(* requests interleave.  Each request asks for its own video and takes     *)
(* the audio path.                                                         *)

\* the video request p asks for
UrlOf(p) == IF p = 1 THEN WatchUrl ELSE strip(ShortUrl)

ConcurrentBodies(p) == {Body(Some(UrlOf(p)), None, None)}

\* the requests being served
InFlight == {q \in Procs : req[q].pc # "idle"}

\* the collaborator outcomes of the audio path: no platform transcript,
\* whisper and the summarizer raise or return text
AudioPathOutcomes ==
    \A p \in Procs : \A i \in 1..Len(req[p].calls) :
        LET c == req[p].calls[i]
        IN  /\ c.fn = "get_transcript" => c.ret = ApiRaises
            /\ c.fn = "whisper" => (c.ret = None \/ Truthy(c.ret))
            /\ c.fn = "summarizer" => c.ret \in {None, Some(<<"short">>)}

NextConcurrent ==
    \E p \in Procs :
        \/ /\ \A q, r \in InFlight : q = r
           /\ \E body \in ConcurrentBodies(p) : Summarize(p, body)
        \/ Step(p) /\ AudioPathOutcomes'

SpecConcurrent == Init /\ [][NextConcurrent]_vars

-----------------------------------------------------------------------------
(* The helpers chunk_text and extract_video_id called on their own *)

InitPure ==
    /\ req = [p \in Procs |-> Idle]
    /\ files = [f \in {MP3, WAV} |-> None]
    /\ call \in PureInputs
    /\ outcome = NotReturned

CallChunkText ==
    /\ call.fn = "chunk_text"
    /\ ~outcome.returned
    /\ outcome' = ReturnedValue(chunk_text(call.text, call.max_words))
    /\ UNCHANGED <<req, files, call>>

CallExtractVideoId ==
    /\ call.fn = "extract_video_id"
    /\ ~outcome.returned
    /\ outcome' = ReturnedValue(extract_video_id(call.youtube_url))
    /\ UNCHANGED <<req, files, call>>

NextPure == CallChunkText \/ CallExtractVideoId

SpecPure == InitPure /\ [][NextPure]_vars

-----------------------------------------------------------------------------
(* Vocabulary of the properties *)

\* the calls of request p to collaborator fn, in order
CallsOf(p, fn) == SelectSeq(req[p].calls, LAMBDA c : c.fn = fn)

\* process_youtube_video has returned and summarize has not yet looked at
\* the value
Returned(p) == req[p].pc = "respond"

\* the request has reached summarize_text and summarize_text has returned
Summarized(p) ==
    /\ req[p].caller # 0
    /\ req[p].pc \in {"cleanup", "remove", "respond", "done"}

\* the value is one of the error strings of process_youtube_video
IsError(r) == r # None /\ r[1] # <<>> /\ r[1][1] = "Error:"

\* the value is the text summarize_text produced
IsSummary(p, r) ==
    r # None /\ Summarized(p) /\ r = aggregate(req[p].summaries)

-----------------------------------------------------------------------------
(* Properties *)

\* C1: when process_youtube_video completes, its value is exactly one of a
\* summary or an error: never both, never neither (None).
C1_ExactlyOneOfSummaryOrError ==
    \A p \in Procs :
        Returned(p) =>
            /\ IsSummary(p, req[p].result) \/ IsError(req[p].result)
            /\ ~(IsSummary(p, req[p].result) /\ IsError(req[p].result))

\* C2: if every summarizer call of the request failed (or there was no
\* chunk), process_youtube_video returns the SummarizationFailed error, on
\* the platform-transcript path and on the speech-to-text path.
C2_AllChunksFailIsSummarizationFailed ==
    \A p \in Procs :
        ( /\ Returned(p)
          /\ Summarized(p)
          /\ \A i \in 1..Len(CallsOf(p, "summarizer")) :
                 CallsOf(p, "summarizer")[i].ret = None )
        => req[p].result = Some(ErrSummarization)

\* C3: every summarizer call of a request is made with the max_length and
\* min_length the caller supplied in the request (150 and 50 when omitted).
C3_CallerBoundsReachSummarizer ==
    \A p \in Procs :
        \A i \in 1..Len(CallsOf(p, "summarizer")) :
            /\ CallsOf(p, "summarizer")[i].arg.max_length = req[p].max_length
            /\ CallsOf(p, "summarizer")[i].arg.min_length = req[p].min_length

\* C4: a request that reached summarization has, when it completes, tested
\* both temp files for removal, and neither audio.mp3 nor audio.wav exists.
C4_CleanupAlwaysPerformed ==
    \A p \in Procs :
        (req[p].pc = "done" /\ Summarized(p)) =>
            /\ \A i \in 1..Len(TempFiles) :
                   \E j \in 1..Len(CallsOf(p, "os.path.exists")) :
                       CallsOf(p, "os.path.exists")[j].arg = TempFiles[i]
            /\ files[MP3] = None
            /\ files[WAV] = None

\* C5: when os.remove fails during cleanup, process_youtube_video returns
\* what it would have returned had cleanup succeeded: the summary if there
\* is one, else the SummarizationFailed error.
C5_CleanupFailureSwallowed ==
    \A p \in Procs :
        ( /\ Returned(p)
          /\ \E i \in 1..Len(CallsOf(p, "os.remove")) :
                 CallsOf(p, "os.remove")[i].ret = "raise" )
        => req[p].result = IF Truthy(req[p].summary) THEN req[p].summary
                           ELSE Some(ErrSummarization)

\* the request's transcript lookup has been made and gave no usable text:
\* it raised, returned no entry, or returned entries whose joined text is ""
FellBack(p) ==
    /\ CallsOf(p, "get_transcript") # <<>>
    /\ LET api == CallsOf(p, "get_transcript")[1].ret
       IN  api.raised \/ api.entries = <<>> \/ Join(api.entries) = <<>>

\* the request's transcript lookup has been made and gave a non-empty text
GotPlatformTranscript(p) ==
    /\ CallsOf(p, "get_transcript") # <<>>
    /\ LET api == CallsOf(p, "get_transcript")[1].ret
       IN  ~api.raised /\ api.entries # <<>> /\ Join(api.entries) # <<>>

\* the audio-path calls of the request, in order
AudioCalls(p) ==
    SelectSeq(req[p].calls, LAMBDA c : c.fn \in {"yt-dlp", "AudioSegment", "whisper"})

\* s is an initial part of t
IsPrefix(s, t) == Len(s) <= Len(t) /\ s = SubSeq(t, 1, Len(s))

\* C6: after a failed or empty transcript lookup the request calls download,
\* convert, transcribe in that order, each at most once and each only if
\* the one before succeeded; the summarizer is called only if transcribe
\* returned non-empty text.
C6_FallbackChainShortCircuits ==
    \A p \in Procs :
        FellBack(p) =>
            /\ IsPrefix([i \in 1..Len(AudioCalls(p)) |-> AudioCalls(p)[i].fn],
                        <<"yt-dlp", "AudioSegment", "whisper">>)
            /\ CallsOf(p, "AudioSegment") # <<>>
                   => CallsOf(p, "yt-dlp")[1].ret = "ok"
            /\ CallsOf(p, "whisper") # <<>>
                   => CallsOf(p, "AudioSegment")[1].ret = "ok"
            /\ CallsOf(p, "summarizer") # <<>>
                   => /\ CallsOf(p, "whisper") # <<>>
                      /\ Truthy(CallsOf(p, "whisper")[1].ret)

\* C7: on the fallback path a failed download returns AudioDownloadFailed,
\* a failed conversion AudioConversionFailed, a failed or empty
\* transcription TranscriptionFailed; the three values differ and none is
\* a summary.
C7_DistinctFallbackErrors ==
    /\ ErrDownload # ErrConvert /\ ErrDownload # ErrTranscribe /\ ErrConvert # ErrTranscribe
    /\ \A p \in Procs :
          (Returned(p) /\ FellBack(p)) =>
              /\ ( CallsOf(p, "yt-dlp") # <<>> /\ CallsOf(p, "yt-dlp")[1].ret = "fail" )
                     => req[p].result = Some(ErrDownload)
              /\ ( CallsOf(p, "AudioSegment") # <<>>
                    /\ CallsOf(p, "AudioSegment")[1].ret = "raise" )
                     => req[p].result = Some(ErrConvert)
              /\ ( CallsOf(p, "whisper") # <<>>
                    /\ ~Truthy(CallsOf(p, "whisper")[1].ret) )
                     => req[p].result = Some(ErrTranscribe)

\* C8: when the transcript lookup returns a non-empty transcript, the
\* request never calls download, convert or transcribe, and the text handed
\* to summarize_text, chunk by chunk to the summarizer, is the entries' text
\* joined by single spaces in order.
C8_PlatformTranscriptSkipsAudio ==
    \A p \in Procs :
        CallsOf(p, "get_transcript") # <<>> =>
            LET api == CallsOf(p, "get_transcript")[1].ret
                platform == Join(api.entries)
                passed == chunk_text(platform, DefaultMaxWords)
                made == CallsOf(p, "summarizer")
            IN  (~api.raised /\ api.entries # <<>> /\ platform # <<>>) =>
                    /\ AudioCalls(p) = <<>>
                    /\ req[p].pc \notin {"download", "convert", "transcribe"}
                    /\ req[p].caller = 103
                    /\ req[p].text = platform
                    /\ \A i \in 1..Len(made) : made[i].arg.chunk = passed[i]

\* C8 witness: a request on the platform path has summarized a transcript of
\* several entries and returned.
C8_Witness ==
    \E p \in Procs :
        /\ GotPlatformTranscript(p)
        /\ Len(CallsOf(p, "get_transcript")[1].ret.entries) > 1
        /\ Returned(p)
        /\ Len(CallsOf(p, "summarizer")) > 1

\* process_youtube_video has been entered and line 94 has run
Extracted(p) ==
    /\ req[p].youtube_url # EmptyStr
    /\ req[p].pc \notin {"idle", "extract"}

\* C9: if no video id is extracted, process_youtube_video returns the
\* InvalidUrl error at once: no collaborator is called and no temp file is
\* tested, written or removed.
C9_InvalidUrlStopsPipeline ==
    \A p \in Procs :
        (Extracted(p) /\ ~Truthy(req[p].video_id)) =>
            /\ req[p].pc \in {"respond", "done"}
            /\ req[p].result = Some(ErrInvalidUrl)
            /\ req[p].calls = <<>>

\* C9 witness: a request whose URL names a recognized host but holds an
\* empty id has returned.
C9_Witness ==
    \E p \in Procs :
        /\ Extracted(p)
        /\ req[p].video_id = Some(<<>>)
        /\ Returned(p)

\* the request body parsed and its bounds are integers
WellFormed(p) ==
    /\ req[p].data.parsed
    /\ req[p].data.max_length \in {None} \cup {Some(JInt(n)) : n \in 0..200}
    /\ req[p].data.min_length \in {None} \cup {Some(JInt(n)) : n \in 0..200}

\* C10: a request with an absent or invalid URL is answered with a
\* client-error status; a request that fails inside the pipeline is
\* answered with a server-error status.
C10_StatusTellsCause ==
    \A p \in Procs :
        (req[p].pc = "done" /\ WellFormed(p)) =>
            /\ (req[p].youtube_url = EmptyStr \/ ~Truthy(req[p].video_id))
                   => req[p].response[1].status \in 400..499
            /\ ( /\ Truthy(req[p].video_id)
                  /\ (req[p].result = None \/ IsError(req[p].result)) )
                   => req[p].response[1].status \in 500..599

\* process_youtube_video was called by the request
Entered(p) == req[p].youtube_url # EmptyStr /\ req[p].pc # "idle"

\* C11: whenever process_youtube_video ends with a summary text, whatever
\* words it holds, the response is {summary: text} with status 200; an
\* {error} response is sent only when the pipeline failed.
C11_SummaryAlwaysDeliveredAsSummary ==
    \A p \in Procs :
        (req[p].pc = "done" /\ Entered(p)) =>
            /\ (IsSummary(p, req[p].result) /\ ~IsError(req[p].result))
                   => req[p].response[1] = Response(200, "summary", req[p].result[1])
            /\ req[p].response[1].key = "error"
                   => (req[p].result = None \/ IsError(req[p].result))

\* the value summarize_text returned to its caller
SummarizeTextValue(p) ==
    IF req[p].caller = 103 THEN req[p].result ELSE req[p].summary

\* the texts the summarizer returned to the request, in call order
Succeeded(p) ==
    LET ok == SelectSeq(CallsOf(p, "summarizer"), LAMBDA c : c.ret # None)
    IN  [i \in 1..Len(ok) |-> ok[i].ret[1]]

\* C12: if the summarizer succeeds on at least one chunk, summarize_text
\* returns a text, not None: the successful chunks' summaries joined by
\* single spaces in chunk order, whichever chunks failed.
C12_AggregatorToleratesPartialFailure ==
    \A p \in Procs :
        (Summarized(p) /\ Succeeded(p) # <<>>) =>
            SummarizeTextValue(p) = Some(Join(Succeeded(p)))

\* C12 witness: summarize_text has returned after a failed chunk followed
\* by a successful one.
C12_Witness ==
    \E p \in Procs :
        /\ Summarized(p)
        /\ Len(CallsOf(p, "summarizer")) > 1
        /\ CallsOf(p, "summarizer")[1].ret = None
        /\ Truthy(CallsOf(p, "summarizer")[2].ret)

\* C14: with requests served one at a time, a request whose yt-dlp run
\* fails calls neither convert nor transcribe and returns the
\* AudioDownloadFailed error, whatever earlier requests left behind.
C14_FailedDownloadIndependentOfHistory ==
    \A p \in Procs :
        (CallsOf(p, "yt-dlp") # <<>> /\ CallsOf(p, "yt-dlp")[1].ret = "fail") =>
            /\ CallsOf(p, "AudioSegment") = <<>>
            /\ CallsOf(p, "whisper") = <<>>
            /\ req[p].pc \in {"respond", "done"}
            /\ req[p].result = Some(ErrDownload)

\* some collaborator call of the request raised
SomeCallRaised(p) ==
    \E i \in 1..Len(req[p].calls) :
        LET c == req[p].calls[i]
        IN  \/ c.fn = "get_transcript" /\ c.ret.raised
            \/ c.fn \in {"yt-dlp", "AudioSegment", "os.remove"} /\ c.ret = "raise"
            \/ c.fn \in {"whisper", "summarizer"} /\ c.ret = None

\* C16: every request that is answered gets a response, with an exception
\* raised at any stage too: a {summary} body with status 200 or an {error}
\* body with status 400 or 500; and a request in flight can always take
\* its next step.
C16_AlwaysWellFormedResponse ==
    \A p \in Procs :
        /\ req[p].pc = "done" =>
              /\ req[p].response # None
              /\ \/ req[p].response[1].key = "summary" /\ req[p].response[1].status = 200
                 \/ req[p].response[1].key = "error"
                    /\ req[p].response[1].status \in {400, 500}
        /\ req[p].pc # "idle" => ENABLED Step(p)

\* C16 witness: a request in which os.remove raised has been answered.
C16_Witness ==
    \E p \in Procs :
        /\ req[p].pc = "done"
        /\ SomeCallRaised(p)
        /\ CallsOf(p, "os.remove") # <<>>
        /\ req[p].response[1].key = "error"

\* C18: the summarizer calls of a request are the chunks in order, one call
\* per chunk whether or not earlier calls failed, all of them made once
\* summarize_text has returned; the transcript lookup, yt-dlp, the
\* converter and whisper are each called at most once.
C18_OneCallPerChunkInOrder ==
    \A p \in Procs :
        LET made == CallsOf(p, "summarizer")
        IN  /\ Len(made) <= Len(req[p].chunks)
            /\ \A i \in 1..Len(made) : made[i].arg.chunk = req[p].chunks[i]
            /\ Summarized(p) => Len(made) = Len(req[p].chunks)
            /\ req[p].pc \in {"chunk", "cleanup", "remove", "respond", "done"}
                   /\ req[p].caller # 0
                   => req[p].chunks = chunk_text(req[p].text, DefaultMaxWords)
            /\ \A fn \in {"get_transcript", "yt-dlp", "AudioSegment", "whisper"} :
                   Len(CallsOf(p, fn)) <= 1

\* C18 witness: summarize_text has returned after two calls, the first of
\* which failed.
C18_Witness ==
    \E p \in Procs :
        /\ Summarized(p)
        /\ Len(req[p].chunks) > 1
        /\ Len(CallsOf(p, "summarizer")) = Len(req[p].chunks)
        /\ CallsOf(p, "summarizer")[1].ret = None

\* C19: when process_youtube_video ends with an error string or with None,
\* the response is an {error} body with a non-success status.
C19_FailureNeverDeliveredAsSuccess ==
    \A p \in Procs :
        ( /\ req[p].pc = "done"
          /\ Entered(p)
          /\ (req[p].result = None \/ IsError(req[p].result)) )
        => /\ req[p].response[1].key = "error"
           /\ req[p].response[1].status >= 400

\* C19 witness: a request whose pipeline returned None has been answered.
C19_Witness ==
    \E p \in Procs :
        /\ req[p].pc = "done"
        /\ Entered(p)
        /\ req[p].result = None

\* " ".join(text.split()) computed token by token: leading and trailing
\* whitespace dropped, every other run of whitespace made one space
RECURSIVE Normalize(_, _)
Normalize(text, out) ==
    IF text = <<>> THEN out
    ELSE IF Head(text) \in Whitespace THEN Normalize(Tail(text), out)
    ELSE Normalize(Tail(text),
                   IF out = <<>> THEN <<Head(text)>> ELSE out \o <<" ", Head(text)>>)

\* the words of a text, counted token by token
WordCount(text) == Cardinality({i \in 1..Len(text) : text[i] \notin Whitespace})

\* ceil(n / m)
Ceil(n, m) == CHOOSE k \in 0..n : k * m >= n /\ (k = 0 \/ (k - 1) * m < n)

\* chunk_text has returned
ChunkTextReturned == call.fn = "chunk_text" /\ outcome.returned

\* C15: for every text and every max_words >= 1, the chunks joined by
\* single spaces are the whitespace-normalized text, there are
\* ceil(word_count / max_words) of them (none for a text without words),
\* every chunk but the last holds exactly max_words words and the last
\* holds between 1 and max_words.
C15_ChunksPartitionTheWords ==
    ChunkTextReturned =>
        LET chunks == outcome.value
            m == call.max_words
        IN  /\ Join(chunks) = Normalize(call.text, <<>>)
            /\ Len(chunks) = Ceil(WordCount(call.text), m)
            /\ WordCount(call.text) = 0 => chunks = <<>>
            /\ \A k \in 1..(Len(chunks) - 1) : WordCount(chunks[k]) = m
            /\ chunks # <<>> => WordCount(chunks[Len(chunks)]) \in 1..m
            /\ \A k \in 1..Len(chunks) : chunks[k] = Normalize(chunks[k], <<>>)

\* C15 witness: chunk_text has returned more than one chunk, the last one
\* shorter than max_words, for a text with whitespace to normalize.
C15_Witness ==
    /\ ChunkTextReturned
    /\ Len(outcome.value) > 1
    /\ WordCount(outcome.value[Len(outcome.value)]) < call.max_words
    /\ call.text # Normalize(call.text, <<>>)

\* host is domain or one of its subdomains
IsHost(host, domain) ==
    \/ host = domain
    \/ /\ Len(host) > Len(domain)
       /\ SubSeq(host, Len(host) - Len(domain), Len(host)) = <<".">> \o domain

\* the first non-blank value of query parameter v, if any
IdParameter(query) ==
    LET at == {i \in 1..Len(query) : query[i][1] = "v" /\ query[i][2] # <<>>}
    IN  IF at = {} THEN None
        ELSE Some(query[CHOOSE i \in at : \A j \in at : i <= j][2])

\* the path without its leading slashes
RECURSIVE PathSegment(_)
PathSegment(path) ==
    IF path # <<>> /\ path[1] = "/" THEN PathSegment(SubSeq(path, 2, Len(path)))
    ELSE path

\* C17: extract_video_id always returns; for a watch-page URL (host
\* youtube.com or a subdomain, with an id parameter) it returns that
\* parameter's value, for a short link (host youtu.be or a subdomain, with
\* a path segment) the segment, and for every other input absent.
C17_OnlyRecognizedFormsYieldAnId ==
    (call.fn = "extract_video_id" /\ outcome.returned) =>
        LET u == call.youtube_url
        IN  outcome.value =
              IF ~u.valid THEN None
              ELSE IF IsHost(u.netloc, YOUTUBE_COM) THEN IdParameter(u.query)
              ELSE IF IsHost(u.netloc, YOUTU_BE) /\ PathSegment(u.path) # <<>>
                   THEN Some(PathSegment(u.path))
              ELSE None

\* what the request's converter call found in audio.mp3, what its whisper
\* call found in audio.wav
ConvertedAudio(p) == CallsOf(p, "AudioSegment")[1].arg
TranscribedAudio(p) == CallsOf(p, "whisper")[1].arg

\* the request's own yt-dlp run wrote audio.mp3
Downloaded(p) ==
    CallsOf(p, "yt-dlp") # <<>> /\ CallsOf(p, "yt-dlp")[1].ret = "ok"

Ended(p) == req[p].pc \in {"respond", "done"}

\* C13: with requests served at the same time, a request that finds
\* audio.mp3 gone ends with AudioConversionFailed without transcribing,
\* one that finds audio.wav gone ends with TranscriptionFailed without
\* summarizing, one whose os.remove finds the file gone ends with the
\* caught exception, and the audio a request converts or transcribes is
\* whatever the shared file held at that moment: its value is then the
\* aggregate of the summaries of that text.
C13_ConcurrentRequestsShareTempFiles ==
    \A p \in Procs :
        /\ (CallsOf(p, "AudioSegment") # <<>> /\ ConvertedAudio(p) = None) =>
              /\ CallsOf(p, "whisper") = <<>>
              /\ Ended(p)
              /\ req[p].result = Some(ErrConvert)
        /\ (CallsOf(p, "whisper") # <<>> /\ TranscribedAudio(p) = None) =>
              /\ CallsOf(p, "summarizer") = <<>>
              /\ Ended(p)
              /\ req[p].result = Some(ErrTranscribe)
        /\ (CallsOf(p, "whisper") # <<>> /\ Truthy(CallsOf(p, "whisper")[1].ret)) =>
              /\ TranscribedAudio(p) # None
              /\ req[p].text = CallsOf(p, "whisper")[1].ret[1]
        /\ (Ended(p) /\ Summarized(p) /\ CallsOf(p, "os.remove") # <<>>
              /\ CallsOf(p, "os.remove")[Len(CallsOf(p, "os.remove"))].ret = "raise") =>
              req[p].result = Some(ErrException("OSError"))

\* C13 witness: two requests overlapped; one downloaded its own audio but
\* transcribed audio of the other request's video and was answered with a
\* summary, the other downloaded its own audio, found audio.mp3 removed by
\* the first one's cleanup and was answered with an error.
C13_Witness ==
    \E p, q \in Procs :
        /\ p # q
        /\ req[p].pc = "done" /\ req[q].pc = "done"
        /\ Downloaded(p) /\ Downloaded(q)
        /\ CallsOf(p, "whisper") # <<>>
        /\ TranscribedAudio(p) = Some(req[q].youtube_url)
        /\ req[q].youtube_url # req[p].youtube_url
        /\ req[p].response[1].key = "summary"
        /\ CallsOf(q, "AudioSegment") # <<>>
        /\ ConvertedAudio(q) = None
        /\ req[q].response[1] = Response(500, "error", ErrConvert)

====
